---- MODULE Spec2Model ----
(***************************************************************************)
(* Movie catalog API (src/src/routes/movies.py, src/src/schemas/movies.py).*)
(* Every request runs in its own session; a handler is suspended at each   *)
(* awaited store call, so the handlers of two requests interleave at these *)
(* points.  The persisted store is what committed transactions wrote.      *)
(***************************************************************************)
EXTENDS Integers, Sequences, FiniteSets, TLC

VARIABLES
    movies,       \* persisted Movie rows
    countries,    \* persisted Country rows
    lookups,      \* persisted Genre / Actor / Language rows, by kind
    sess,         \* per request: the handler's position and its session
    gone,         \* ids whose delete returned 204 and that no later create got
    everDeleted   \* ids whose delete returned 204 at some time

vars == <<movies, countries, lookups, sess, gone, everDeleted>>

store == <<movies, countries, lookups>>

-----------------------------------------------------------------------------
(* Bounds of the model. *)
MaxId == 2          \* movie ids the store hands out: 1..MaxId
MaxLen == 2         \* longest name list of a create payload
ConcMaxLen == 1     \* the same, when two requests run concurrently
MaxItems == 4       \* most movies in the store when listing is checked
MaxPage == 3        \* largest page number requested
ResMaxLen == 2      \* longest name list tried on the resolver alone
NFields == 4        \* fields of the update schema that update payloads range over

(* Program constants. *)
PerPageMin == 1
PerPageMax == 20

Reqs == {1, 2}
Kinds == {"genre", "actor", "language"}
Fields == {"name", "date", "score", "overview", "status", "budget", "revenue"}
Vals == {1, 2}                      \* two admissible values of a field
LookupNames == {"a"}
ResNames == {"a", "b"}
Codes == {"USA"}
NoId == 0                           \* a staged record has no id yet

Range(s) == {s[i] : i \in DOMAIN s}
SeqsUpTo(S, n) == UNION {[1..k -> S] : k \in 0..n}

RECURSIVE ById(_)
(* The rows of a query in id order. *)
ById(S) ==
    IF S = {} THEN <<>>
    ELSE LET e == CHOOSE x \in S : \A y \in S : x.id <= y.id
         IN <<e>> \o ById(S \ {e})

-----------------------------------------------------------------------------
(* get_or_create_entities *)

GetOrCreateNoFilter(rows, names) ==
    IF names = <<>> THEN <<>>
    ELSE LET existing_entities == {e \in rows : e.name \in Range(names)}
         IN ById(existing_entities)
              \o [i \in 1..Len(names) |-> [id |-> NoId, name |-> names[i]]]

get_or_create_entities(rows, names) ==
    IF names = <<>> THEN <<>>
    ELSE LET existing_entities == {e \in rows : e.name \in Range(names)}
             existing_names == {e.name : e \in existing_entities}
             new_names == SelectSeq(names, LAMBDA n : n \notin existing_names)
             new_entities == [i \in 1..Len(new_names) |->
                                 [id |-> NoId, name |-> new_names[i]]]
         IN ById(existing_entities) \o new_entities

StagedNames(ents) ==
    LET new == SelectSeq(ents, LAMBDA e : e.id = NoId)
    IN [i \in 1..Len(new) |-> new[i].name]

-----------------------------------------------------------------------------
(* Sessions *)

KindSeq == <<"genre", "actor", "language">>

Fresh ==
    [pc |-> "idle", op |-> "none", status |-> 0, mid |-> 0,
     payload |-> <<>>, changes |-> <<>>, country |-> NoId,
     ents |-> [k \in Kinds |-> <<>>], k |-> 0,
     page |-> 0, per_page |-> 0, total_items |-> 0, body |-> <<>>]

(* A request may start on a connection whose previous request has returned. *)
Free(r) == sess[r].pc \in {"idle", "done"}

None == <<>>
Response(op, status, mid) ==
    [Fresh EXCEPT !.pc = "done", !.op = op, !.status = status, !.mid = mid]

(* The request returns: its session is closed and the response is sent. *)
Return(r, response) == sess' = [sess EXCEPT ![r] = response]

(* The handler is suspended at its next awaited call. *)
Await(r, session) == sess' = [sess EXCEPT ![r] = session]

Row(id) == CHOOSE m \in movies : m.id = id
HasRow(id) == \E m \in movies : m.id = id
Key(f) == <<f["name"], f["date"]>>

-----------------------------------------------------------------------------
(* get_movie *)

get_movie(r, movie_id) ==
    /\ Free(r)
    /\ Return(r, Response("get", IF HasRow(movie_id) THEN 200 ELSE 404, movie_id))
    /\ UNCHANGED store

-----------------------------------------------------------------------------
(* delete_movie *)

delete_get(r, movie_id) ==
    /\ Free(r)
    /\ IF HasRow(movie_id)
       THEN Await(r, [Fresh EXCEPT !.pc = "d_commit", !.op = "delete",
                                   !.mid = movie_id])
       ELSE Return(r, Response("delete", 404, movie_id))
    /\ UNCHANGED store

DeleteKeepsRow(r) ==
    /\ sess[r].pc = "d_commit"
    /\ Return(r, Response("delete", 204, sess[r].mid))
    /\ UNCHANGED store

DeleteCascade(r) ==
    LET row == Row(sess[r].mid) IN
    /\ sess[r].pc = "d_commit"
    /\ movies' = {m \in movies : m.id # sess[r].mid}
    /\ lookups' = [k \in Kinds |->
                      IF HasRow(sess[r].mid)
                      THEN {e \in lookups[k] : e.id \notin row.rel[k]}
                      ELSE lookups[k]]
    /\ Return(r, Response("delete", 204, sess[r].mid))
    /\ UNCHANGED countries

delete_commit(r) ==
    /\ sess[r].pc = "d_commit"
    /\ movies' = {m \in movies : m.id # sess[r].mid}
    /\ Return(r, Response("delete", 204, sess[r].mid))
    /\ UNCHANGED <<countries, lookups>>

-----------------------------------------------------------------------------
(* update_movie *)

(* setattr for each field of the payload: the session keeps, as pending changes,
   the fields set to a value other than the loaded one. *)
Dirty(update_data, loaded) ==
    LET S == {fld \in DOMAIN update_data : update_data[fld] # loaded[fld]}
    IN [fld \in S |-> update_data[fld]]

update_get(r, movie_id, movie_update) ==
    /\ Free(r)
    /\ IF HasRow(movie_id)
       THEN Await(r, [Fresh EXCEPT !.pc = "u_commit", !.op = "update",
                                   !.mid = movie_id,
                                   !.payload = movie_update,
                                   !.changes = Dirty(movie_update,
                                                     Row(movie_id).f)])
       ELSE Return(r, Response("update", 404, movie_id))
    /\ UNCHANGED store

WrittenAll(s, row) ==
    [row EXCEPT !.f = [fld \in Fields |->
                          IF fld \in DOMAIN s.changes THEN s.changes[fld] ELSE 1]]

Written(s, row) ==
    [row EXCEPT !.f = [fld \in Fields |->
                          IF fld \in DOMAIN s.changes THEN s.changes[fld]
                          ELSE row.f[fld]]]

MovieKeyTaken(key, except_id) ==
    \E m \in movies : m.id # except_id /\ Key(m.f) = key

UpdateFails(s) ==
    \/ ~HasRow(s.mid)
    \/ MovieKeyTaken(Key(Written(s, Row(s.mid)).f), s.mid)

UpdateUnhandled(r) ==
    LET s == sess[r] IN
    /\ s.pc = "u_commit"
    /\ IF DOMAIN s.changes = {}
       THEN /\ Return(r, Response("update", 200, s.mid))
            /\ UNCHANGED movies
       ELSE IF UpdateFails(s)
       THEN /\ Return(r, Response("update", 500, s.mid))
            /\ UNCHANGED movies
       ELSE /\ movies' = (movies \ {Row(s.mid)}) \cup {Written(s, Row(s.mid))}
            /\ Return(r, Response("update", 200, s.mid))
    /\ UNCHANGED <<countries, lookups>>

update_commit(r) ==
    LET s == sess[r] IN
    /\ s.pc = "u_commit"
    /\ IF DOMAIN s.changes = {}
       THEN /\ Return(r, Response("update", 200, s.mid))
            /\ UNCHANGED movies
       ELSE IF UpdateFails(s)
       THEN /\ Return(r, Response("update", 400, s.mid))
            /\ UNCHANGED movies
       ELSE /\ movies' = (movies \ {Row(s.mid)}) \cup {Written(s, Row(s.mid))}
            /\ Return(r, Response("update", 200, s.mid))
    /\ UNCHANGED <<countries, lookups>>

-----------------------------------------------------------------------------
(* create_movie *)

(* Creates that have not committed yet; each will need an id. *)
InFlightCreates ==
    {r \in Reqs : sess[r].pc \in {"c_country", "c_resolve", "c_commit"}}

CreateNoCheck(r, movie_data) ==
    /\ Free(r)
    /\ Cardinality(movies) + Cardinality(InFlightCreates) < MaxId
    /\ Await(r, [Fresh EXCEPT !.pc = "c_country", !.op = "create",
                              !.payload = movie_data])
    /\ UNCHANGED store

create_check(r, movie_data) ==
    /\ Free(r)
    /\ Cardinality(movies) + Cardinality(InFlightCreates) < MaxId
    /\ IF \E m \in movies : Key(m.f) = Key(movie_data.f)
       THEN Return(r, [Response("create", 409, 0) EXCEPT
                          !.payload = movie_data])
       ELSE Await(r, [Fresh EXCEPT !.pc = "c_country", !.op = "create",
                                   !.payload = movie_data])
    /\ UNCHANGED store

create_country(r) ==
    LET s == sess[r]
        found == {c \in countries : c.code = s.payload.country}
    IN
    /\ s.pc = "c_country"
    /\ Await(r, [s EXCEPT !.pc = "c_resolve", !.k = 1,
                          !.country = IF found = {} THEN NoId
                                      ELSE (CHOOSE c \in found : TRUE).id])
    /\ UNCHANGED store

create_resolve(r) ==
    LET s == sess[r]
        kind == KindSeq[s.k]
    IN
    /\ s.pc = "c_resolve"
    /\ Await(r, [s EXCEPT !.ents[kind] =
                              get_or_create_entities(lookups[kind],
                                                     s.payload.names[kind]),
                          !.k = IF s.k < Len(KindSeq) THEN s.k + 1 ELSE 0,
                          !.pc = IF s.k < Len(KindSeq) THEN "c_resolve"
                                 ELSE "c_commit"])
    /\ UNCHANGED store

NoDuplicates(seq) == \A i, j \in DOMAIN seq : seq[i] = seq[j] => i = j

(* What the store's unique constraints reject when the session is flushed. *)
IntegrityError(s) ==
    \/ s.country = NoId /\ \E c \in countries : c.code = s.payload.country
    \/ \E kind \in Kinds :
          \/ ~NoDuplicates(StagedNames(s.ents[kind]))
          \/ \E e \in lookups[kind] : e.name \in Range(StagedNames(s.ents[kind]))
    \/ \E m \in movies : Key(m.f) = Key(s.payload.f)

NextId(rows) == Cardinality(rows) + 1

Inserted(rows, names) ==
    rows \cup {[id |-> NextId(rows) + i - 1, name |-> names[i]] : i \in DOMAIN names}

Refs(rows, ents) ==
    {e.id : e \in {x \in Range(ents) : x.id # NoId}}
        \cup {e.id : e \in {x \in rows : x.name \in Range(StagedNames(ents))}}

FreeIds == {i \in 1..MaxId : ~HasRow(i)}

RollbackPartial(r) ==
    /\ sess[r].pc = "c_commit"
    /\ IntegrityError(sess[r])
    /\ Return(r, Response("create", 400, 0))
    /\ countries' = IF sess[r].country = NoId
                    THEN countries \cup {[id |-> NextId(countries),
                                          code |-> sess[r].payload.country,
                                          name |-> "None"]}
                    ELSE countries
    /\ lookups' = [kind \in Kinds |->
                      lookups[kind] \cup
                          {[id |-> NextId(lookups[kind]), name |-> n] :
                              n \in Range(StagedNames(sess[r].ents[kind]))}]
    /\ UNCHANGED movies

CommitUnhandled(r) ==
    /\ sess[r].pc = "c_commit"
    /\ IntegrityError(sess[r])
    /\ Return(r, Response("create", 500, 0))
    /\ UNCHANGED store

create_rollback(r) ==
    /\ sess[r].pc = "c_commit"
    /\ IntegrityError(sess[r])
    /\ Return(r, Response("create", 400, 0))
    /\ UNCHANGED store

create_commit(r, new_id) ==
    LET s == sess[r]
        new_countries ==
            IF s.country = NoId
            THEN countries \cup {[id |-> NextId(countries),
                                  code |-> s.payload.country, name |-> "None"]}
            ELSE countries
        new_lookups ==
            [kind \in Kinds |-> Inserted(lookups[kind], StagedNames(s.ents[kind]))]
        db_movie ==
            [id |-> new_id, f |-> s.payload.f,
             country |-> IF s.country = NoId THEN NextId(countries) ELSE s.country,
             rel |-> [kind \in Kinds |-> Refs(new_lookups[kind], s.ents[kind])]]
    IN
    /\ s.pc = "c_commit"
    /\ ~IntegrityError(s)
    /\ new_id \in FreeIds
    /\ countries' = new_countries
    /\ lookups' = new_lookups
    /\ movies' = movies \cup {db_movie}
    /\ Await(r, [Fresh EXCEPT !.pc = "c_reload", !.op = "create", !.mid = new_id])

create_reload(r) ==
    LET s == sess[r] IN
    /\ s.pc = "c_reload"
    /\ Return(r, Response("create", IF HasRow(s.mid) THEN 201 ELSE 500, s.mid))
    /\ UNCHANGED store

-----------------------------------------------------------------------------
(* get_movies *)

Link(p, pp) == [page |-> p, per_page |-> pp]

ListResponse(s, status, body) ==
    [Response("list", status, 0) EXCEPT
        !.page = s.page, !.per_page = s.per_page,
        !.total_items = s.total_items, !.body = body]

CountFloorPages(r, page, per_page) ==
    LET total_items == Cardinality(movies)
        total_pages == total_items \div per_page
    IN
    /\ Free(r)
    /\ IF total_items = 0 \/ page > total_pages
       THEN Return(r, ListResponse([page |-> page, per_page |-> per_page,
                                    total_items |-> total_items], 404, None))
       ELSE Await(r, [Fresh EXCEPT !.pc = "l_select", !.op = "list",
                                   !.page = page, !.per_page = per_page,
                                   !.total_items = total_items])
    /\ UNCHANGED store

get_movies_count(r, page, per_page) ==
    LET total_items == Cardinality(movies)
        total_pages == (total_items + per_page - 1) \div per_page
    IN
    /\ Free(r)
    /\ IF total_items = 0 \/ page > total_pages
       THEN Return(r, ListResponse([page |-> page, per_page |-> per_page,
                                    total_items |-> total_items], 404, None))
       ELSE Await(r, [Fresh EXCEPT !.pc = "l_select", !.op = "list",
                                   !.page = page, !.per_page = per_page,
                                   !.total_items = total_items])
    /\ UNCHANGED store

(* ORDER BY id DESC OFFSET offset LIMIT per_page *)
PageRows(offset, limit) ==
    {m \in movies :
        LET rank == Cardinality({x \in movies : x.id > m.id})
        IN rank >= offset /\ rank < offset + limit}

get_movies_select(r) ==
    LET s == sess[r]
        total_pages == (s.total_items + s.per_page - 1) \div s.per_page
        offset == (s.page - 1) * s.per_page
        rows == PageRows(offset, s.per_page)
    IN
    /\ s.pc = "l_select"
    /\ IF rows = {}
       THEN Return(r, ListResponse(s, 404, None))
       ELSE Return(r, ListResponse(s, 200,
                [movies |-> {m.id : m \in rows},
                 prev_page |-> IF s.page > 1
                               THEN Link(s.page - 1, s.per_page) ELSE None,
                 next_page |-> IF s.page < total_pages
                               THEN Link(s.page + 1, s.per_page) ELSE None,
                 total_pages |-> total_pages,
                 total_items |-> s.total_items]))
    /\ UNCHANGED store

-----------------------------------------------------------------------------
(* Inputs *)

CreatePayloads(keyFields, codes, nameLists) ==
    {[f |-> [fld \in Fields |-> IF fld \in keyFields THEN kf[fld] ELSE 1],
      country |-> c, names |-> n] :
        kf \in [keyFields -> Vals], c \in codes, n \in nameLists}

(* Name lists for the three kinds, at most `most` of them non-empty. *)
NameLists(names, maxLen, most) ==
    {n \in [Kinds -> SeqsUpTo(names, maxLen)] :
        Cardinality({k \in Kinds : n[k] # <<>>}) <= most}

UpdatePayloads(fields) == UNION {[S -> Vals] : S \in SUBSET fields}

Init ==
    /\ movies = {}
    /\ countries = {}
    /\ lookups = [k \in Kinds |-> {}]
    /\ sess = [r \in Reqs |-> Fresh]
    /\ gone = {}
    /\ everDeleted = {}

Ids == 1..MaxId
Untracked == UNCHANGED <<gone, everDeleted>>

ApiPayloads ==
    CreatePayloads({"name", "date"}, Codes, NameLists(LookupNames, MaxLen, 1))
ApiUpdates == UpdatePayloads({"name", "date"})

(* The whole API, one request at a time. *)
Next ==
    /\ Untracked
    /\ \E r \in {1} :
        \/ \E id \in Ids : get_movie(r, id)
        \/ \E id \in Ids : delete_get(r, id)
        \/ delete_commit(r)
        \/ \E id \in Ids, u \in ApiUpdates : update_get(r, id, u)
        \/ update_commit(r)
        \/ \E p \in ApiPayloads : create_check(r, p)
        \/ create_country(r)
        \/ create_resolve(r)
        \/ create_rollback(r)
        \/ \E id \in Ids : create_commit(r, id)
        \/ create_reload(r)

Spec == Init /\ [][Next]_vars

KeysPayloads ==
    CreatePayloads({"name", "date"}, Codes, NameLists(LookupNames, 0, 0))

(* Movies without lookup names, one request at a time, with the history of
   the ids that were deleted. *)
NextDeleted ==
    \E r \in {1} :
        \/ (\E id \in Ids : get_movie(r, id)) /\ Untracked
        \/ (\E id \in Ids : delete_get(r, id)) /\ Untracked
        \/ /\ delete_commit(r)
           /\ gone' = gone \cup {sess[r].mid}
           /\ everDeleted' = everDeleted \cup {sess[r].mid}
        \/ (\E id \in Ids, u \in ApiUpdates : update_get(r, id, u)) /\ Untracked
        \/ update_commit(r) /\ Untracked
        \/ (\E p \in KeysPayloads : create_check(r, p)) /\ Untracked
        \/ create_country(r) /\ Untracked
        \/ create_resolve(r) /\ Untracked
        \/ \E id \in Ids : /\ create_commit(r, id)
                           /\ gone' = gone \ {id}
                           /\ UNCHANGED everDeleted
        \/ create_reload(r) /\ Untracked

SpecDeleted == Init /\ [][NextDeleted]_vars

RacePayloads ==
    CreatePayloads({"name"}, Codes, NameLists(LookupNames, ConcMaxLen, 1))

(* Two create requests at a time, interleaved at every awaited store call. *)
NextRace ==
    /\ Untracked
    /\ \E r \in Reqs :
        \/ \E p \in RacePayloads : create_check(r, p)
        \/ create_country(r)
        \/ create_resolve(r)
        \/ create_rollback(r)
        \/ \E id \in Ids : create_commit(r, id)
        \/ create_reload(r)

SpecRace == Init /\ [][NextRace]_vars

(* Two requests at a time that create, update and delete movies without
   lookup names. *)
NextKeys ==
    /\ Untracked
    /\ \E r \in Reqs :
        \/ \E id \in Ids : delete_get(r, id)
        \/ delete_commit(r)
        \/ \E id \in Ids, u \in ApiUpdates : update_get(r, id, u)
        \/ update_commit(r)
        \/ \E p \in KeysPayloads : create_check(r, p)
        \/ create_country(r)
        \/ create_resolve(r)
        \/ create_rollback(r)
        \/ \E id \in Ids : create_commit(r, id)
        \/ create_reload(r)

SpecKeys == Init /\ [][NextKeys]_vars

ResolverPayloads ==
    CreatePayloads({"name"}, Codes, NameLists(ResNames, ResMaxLen, 1))

(* Creates one after the other whose name lists range over two names. *)
NextResolver ==
    /\ Untracked
    /\ \E r \in {1} :
        \/ \E p \in ResolverPayloads : create_check(r, p)
        \/ create_country(r)
        \/ create_resolve(r)
        \/ create_rollback(r)
        \/ \E id \in Ids : create_commit(r, id)
        \/ create_reload(r)

SpecResolver == Init /\ [][NextResolver]_vars

(* Updates over the first NFields fields of the update schema. *)
FieldSeq == <<"name", "date", "score", "overview", "status", "budget", "revenue">>
UpdFields == {FieldSeq[i] : i \in 1..NFields}

FieldUpdates == UpdatePayloads(UpdFields)

(* The store after two creates: "a" is a genre of the first movie only. *)
InitUpdate ==
    /\ movies = {[id |-> i,
                  f |-> [fld \in Fields |-> IF fld = "name" THEN i ELSE 1],
                  country |-> 1,
                  rel |-> [k \in Kinds |->
                              IF k = "genre" /\ i = 1 THEN {1} ELSE {}]] :
                    i \in 1..2}
    /\ countries = {[id |-> 1, code |-> "USA", name |-> "None"]}
    /\ lookups = [k \in Kinds |->
                     IF k = "genre" THEN {[id |-> 1, name |-> "a"]} ELSE {}]
    /\ sess = [r \in Reqs |-> Fresh]
    /\ gone = {}
    /\ everDeleted = {}

NextUpdate ==
    /\ Untracked
    /\ \E r \in {1} :
        \/ \E id \in Ids, u \in FieldUpdates : update_get(r, id, u)
        \/ update_commit(r)

SpecUpdate == InitUpdate /\ [][NextUpdate]_vars

(* Listing a store of up to MaxItems movies while another request deletes. *)
InitList ==
    /\ \E n \in 0..MaxItems :
          movies = {[id |-> i,
                     f |-> [fld \in Fields |-> IF fld = "date" THEN i ELSE 1],
                     country |-> 1, rel |-> [k \in Kinds |-> {}]] : i \in 1..n}
    /\ countries = {[id |-> 1, code |-> "USA", name |-> "None"]}
    /\ lookups = [k \in Kinds |-> {}]
    /\ sess = [r \in Reqs |-> Fresh]
    /\ gone = {}
    /\ everDeleted = {}

NextList ==
    /\ Untracked
    /\ \/ \E page \in 1..MaxPage, per_page \in PerPageMin..PerPageMax :
             get_movies_count(1, page, per_page)
       \/ get_movies_select(1)
       \/ \E id \in 1..MaxItems : delete_get(2, id)
       \/ delete_commit(2)

SpecList == InitList /\ [][NextList]_vars

-----------------------------------------------------------------------------
(* Properties *)

Stepped(r) == sess'[r] # sess[r]
Starts(r, op) == Free(r) /\ Stepped(r) /\ sess'[r].op = op
Returns(r, op) == Stepped(r) /\ sess'[r].pc = "done" /\ sess'[r].op = op

(* The handler of request s has resolved the i-th kind of its payload. *)
Resolved(s, i) ==
    /\ s.op = "create"
    /\ s.pc = "c_commit" \/ (s.pc = "c_resolve" /\ s.k > i)

(* C1: get_or_create_entities returns as many records as the name list has
   distinct names, and no two returned records share a name. *)
C1_OneRecordPerName ==
    \A r \in Reqs, i \in DOMAIN KindSeq :
        Resolved(sess[r], i) =>
            LET ents == sess[r].ents[KindSeq[i]]
                names == sess[r].payload.names[KindSeq[i]]
            IN /\ Len(ents) = Cardinality(Range(names))
               /\ \A a, b \in DOMAIN ents : ents[a].name = ents[b].name => a = b

(* C2: a call of get_or_create_entities that follows persisted calls returns the
   persisted record for every name of its list that is already in the store
   and stages new records only for names that are not in the store. *)
C2_NoSecondRecord ==
    [][\A r \in Reqs :
          (sess[r].pc = "c_resolve" /\ Stepped(r)) =>
              LET kind == KindSeq[sess[r].k]
                  names == sess[r].payload.names[kind]
                  ents == sess'[r].ents[kind]
              IN /\ \A e \in lookups[kind] :
                       e.name \in Range(names) => e \in Range(ents)
                 /\ \A i \in DOMAIN ents :
                       ents[i].id = NoId =>
                           /\ ents[i].name \in Range(names)
                           /\ \A e \in lookups[kind] : e.name # ents[i].name
                 /\ \A i \in DOMAIN ents :
                       ents[i].id # NoId => ents[i] \in lookups[kind]]_vars

(* A second call has returned a record the first call created together with a
   newly staged one. *)
C2_Witness ==
    \E r \in Reqs, i \in DOMAIN KindSeq :
        /\ Resolved(sess[r], i)
        /\ \E a, b \in DOMAIN sess[r].ents[KindSeq[i]] :
              /\ sess[r].ents[KindSeq[i]][a].id # NoId
              /\ sess[r].ents[KindSeq[i]][b].id = NoId

KeyExists(key) == \E m \in movies : Key(m.f) = key

(* C3: create_movie called with the name and date of a persisted movie returns
   409 and leaves the movies and every Country, Genre, Actor and Language
   record as they were. *)
C3_DuplicateIs409 ==
    [][\A r \in Reqs :
          Starts(r, "create") =>
              LET key == Key(sess'[r].payload.f)
              IN /\ KeyExists(key) =>
                       /\ sess'[r].pc = "done"
                       /\ sess'[r].status = 409
                       /\ UNCHANGED store
                 /\ sess'[r].pc = "done" => sess'[r].status = 409]_vars

(* A create that names a genre the store does not hold was answered 409. *)
C3_Witness ==
    \E r \in Reqs :
        /\ sess[r].pc = "done" /\ sess[r].op = "create" /\ sess[r].status = 409
        /\ KeyExists(Key(sess[r].payload.f))
        /\ sess[r].payload.names["genre"] # <<>>
        /\ lookups["genre"] = {}

RECURSIVE CeilDiv(_, _)
(* ceil(a / b) by counting. *)
CeilDiv(a, b) == IF a <= 0 THEN 0 ELSE 1 + CeilDiv(a - b, b)

ListBodyOk(s) ==
    /\ s.body.total_pages = CeilDiv(s.total_items, s.per_page)
    /\ s.body.total_items = s.total_items
    /\ (s.body.prev_page = None) <=> (s.page = 1)
    /\ (s.body.next_page = None) <=> (s.page = s.body.total_pages)
    /\ s.body.prev_page # None => s.body.prev_page = Link(s.page - 1, s.per_page)
    /\ s.body.next_page # None => s.body.next_page = Link(s.page + 1, s.per_page)

(* C4 as stated: get_movies returns 404 when total_items = 0 or the page is
   beyond ceil(total_items / per_page), and otherwise 200 with total_pages and
   the page links. *)
C4_ListAsStated ==
    \A r \in Reqs :
        (sess[r].pc = "done" /\ sess[r].op = "list") =>
            IF sess[r].total_items = 0
               \/ sess[r].page > CeilDiv(sess[r].total_items, sess[r].per_page)
            THEN sess[r].status = 404
            ELSE sess[r].status = 200 /\ ListBodyOk(sess[r])

(* C4 amended: as stated, except that a page query that finds no row (the
   movies of the page were deleted after the count) is answered 404. *)
C4_List ==
    [][\A r \in Reqs :
          Returns(r, "list") =>
              LET s == sess'[r]
                  rows == PageRows((s.page - 1) * s.per_page, s.per_page)
              IN IF s.total_items = 0
                    \/ s.page > CeilDiv(s.total_items, s.per_page)
                 THEN s.status = 404
                 ELSE IF rows = {}
                 THEN s.status = 404
                 ELSE s.status = 200 /\ ListBodyOk(s)]_vars

(* A page in the middle was listed: both links are set. *)
C4_Witness ==
    \E r \in Reqs :
        /\ sess[r].pc = "done" /\ sess[r].op = "list" /\ sess[r].status = 200
        /\ sess[r].body.prev_page # None
        /\ sess[r].body.next_page # None

(* C5: update_movie changes, of the movie with the given id, only fields that
   the payload holds; the movie's country and genre, actor and language
   references, every other movie and every lookup record stay as they were;
   with an empty payload nothing changes and the answer is 200. *)
C5_UpdateFrame ==
    [][\A r \in Reqs :
          (sess[r].op = "update" /\ Stepped(r)) \/ Starts(r, "update") =>
              /\ UNCHANGED <<countries, lookups>>
              /\ \A m \in movies : m.id # sess'[r].mid => m \in movies'
              /\ \A m \in movies' : m.id # sess'[r].mid => m \in movies
              /\ \A m \in movies : m.id = sess'[r].mid =>
                    \E n \in movies' :
                       /\ n.id = m.id
                       /\ n.country = m.country
                       /\ n.rel = m.rel
                       /\ sess[r].pc = "u_commit" =>
                             \A fld \in Fields \ DOMAIN sess[r].payload :
                                 n.f[fld] = m.f[fld]
                       /\ sess[r].pc # "u_commit" => n = m
              /\ (sess[r].pc = "u_commit" /\ sess[r].payload = <<>>) =>
                    /\ UNCHANGED store
                    /\ sess'[r].status = 200]_vars

(* An update that set the score of one of two movies was answered 200. *)
C5_Witness ==
    \E r \in Reqs :
        /\ sess[r].pc = "done" /\ sess[r].op = "update" /\ sess[r].status = 200
        /\ Cardinality(movies) = 2
        /\ \E m \in movies : m.id = sess[r].mid /\ m.f["score"] = 2
        /\ \E m \in movies : m.id # sess[r].mid /\ m.f["score"] = 1

(* C6 as stated: once delete_movie has answered 204 for an id, get_movie,
   update_movie and delete_movie on that id are answered 404 ever after. *)
C6_DeletedStays404 ==
    [][\A r \in Reqs :
          (\E op \in {"get", "update", "delete"} : Starts(r, op))
          /\ sess'[r].mid \in everDeleted
              => sess'[r].pc = "done" /\ sess'[r].status = 404]_vars

(* C6 amended: the same for as long as no later create_movie was given the
   id; and delete_movie on an id that has no record is answered 404 and
   changes nothing. *)
C6_Deleted404 ==
    [][\A r \in Reqs :
          /\ (\E op \in {"get", "update", "delete"} : Starts(r, op))
             /\ sess'[r].mid \in gone
                 => sess'[r].pc = "done" /\ sess'[r].status = 404
          /\ Starts(r, "delete") /\ ~HasRow(sess'[r].mid)
                 => /\ sess'[r].pc = "done" /\ sess'[r].status = 404
                    /\ UNCHANGED store]_vars

(* A get of a deleted id was answered 404 while other movies exist. *)
C6_Witness ==
    \E r \in Reqs :
        /\ sess[r].pc = "done" /\ sess[r].op = "get" /\ sess[r].status = 404
        /\ sess[r].mid \in gone
        /\ movies # {}

(* C7: delete_movie removes the movie with the given id and nothing else, and
   no step removes or changes a Country, Genre, Actor or Language record. *)
C7_LookupsStay ==
    [][/\ countries \subseteq countries'
       /\ \A k \in Kinds : lookups[k] \subseteq lookups'[k]
       /\ \A r \in Reqs :
             (sess[r].op = "delete" /\ Stepped(r)) \/ Starts(r, "delete") =>
                 /\ UNCHANGED <<countries, lookups>>
                 /\ movies' \subseteq movies
                 /\ \A m \in movies \ movies' : m.id = sess'[r].mid]_vars

(* A delete was answered 204 and left a lookup record that no movie refers to. *)
C7_Witness ==
    \E r \in Reqs :
        /\ sess[r].pc = "done" /\ sess[r].op = "delete" /\ sess[r].status = 204
        /\ \E k \in Kinds : \E e \in lookups[k] :
              \A m \in movies : e.id \notin m.rel[k]
        /\ \E c \in countries : \A m \in movies : m.country # c.id

(* C8: a create_movie whose commit meets a uniqueness violation is answered 400
   and none of its steps changes the persisted store. *)
C8_FailedCommitLeavesStore ==
    [][\A r \in Reqs :
          /\ (sess[r].pc = "c_commit" /\ IntegrityError(sess[r]) /\ Stepped(r)) =>
                /\ sess'[r].pc = "done"
                /\ sess'[r].status = 400
                /\ UNCHANGED store
          /\ (sess[r].pc \in {"c_country", "c_resolve"} /\ Stepped(r)) =>
                UNCHANGED store
          /\ Starts(r, "create") => UNCHANGED store]_vars

(* A create was answered 400 while the movie of the other request is the only
   one persisted. *)
C8_Witness ==
    \E r \in Reqs :
        /\ sess[r].pc = "done" /\ sess[r].op = "create" /\ sess[r].status = 400
        /\ Cardinality(movies) = 1

UniqueLookupNames ==
    /\ \A k \in Kinds : \A a, b \in lookups[k] : a.name = b.name => a = b
    /\ \A a, b \in countries : a.code = b.code => a = b

(* C9: whatever the interleaving of two create_movie requests that name the
   same new genre, actor or language, the store never holds two records of a
   kind with one name, and the request whose commit is rejected is answered
   400. *)
C9_RaceOnLookupName ==
    /\ []UniqueLookupNames
    /\ [][\A r \in Reqs :
             (sess[r].pc = "c_commit" /\ Stepped(r)
              /\ \E k \in Kinds : \E e \in lookups[k] :
                    e.name \in Range(StagedNames(sess[r].ents[k])))
                 => sess'[r].pc = "done" /\ sess'[r].status = 400]_vars

(* A request is about to commit a lookup name that another request, which
   started before it read the store, has persisted meanwhile. *)
C9_Witness ==
    \E r \in Reqs :
        /\ sess[r].pc = "c_commit"
        /\ \E k \in Kinds : \E e \in lookups[k] :
              e.name \in Range(StagedNames(sess[r].ents[k]))
        /\ Cardinality(movies) = 1

UniqueMovieKeys ==
    \A a, b \in movies : (Key(a.f) = Key(b.f) \/ a.id = b.id) => a = b

(* C10: no two persisted movies ever share name and date, and an update_movie
   whose commit would give a movie the name and date of another is answered
   400 and changes nothing. *)
C10_UniqueMovieKeys ==
    /\ []UniqueMovieKeys
    /\ [][\A r \in Reqs :
             (sess[r].pc = "u_commit" /\ Stepped(r)
              /\ sess[r].changes # <<>> /\ HasRow(sess[r].mid)
              /\ KeyExists(Key(Written(sess[r], Row(sess[r].mid)).f))
              /\ Key(Written(sess[r], Row(sess[r].mid)).f)
                    # Key(Row(sess[r].mid).f))
                 => /\ sess'[r].status = 400
                    /\ UNCHANGED store]_vars

(* An update was answered 400 while two movies differ in name or date only. *)
C10_Witness ==
    \E r \in Reqs :
        /\ sess[r].pc = "done" /\ sess[r].op = "update" /\ sess[r].status = 400
        /\ Cardinality(movies) = 2

====
